---- MODULE Spec2Model ----
(***************************************************************************)
(* A state-machine model of cut.py (SermonSlicer): one run of the script   *)
(* from the __main__ block through process_video.  The state is the        *)
(* command line, the environment (PATH, the file system), the locals of    *)
(* process_video / find_audio_offset, and two logs of what the run did.    *)
(*                                                                         *)
(* Scaling.  Audio is modelled as short sequences of integer amplitudes;   *)
(* the sample rate and the analysis window are scaled down (sr samples per *)
(* second, WindowSeconds seconds) so that truncation, delay and clamping   *)
(* all occur on sequences of a few samples.  The acceptance threshold      *)
(* keeps its program value.  fftconvolve is modelled by the exact linear   *)
(* convolution it approximates.                                            *)
(***************************************************************************)
EXTENDS Integers, Sequences, FiniteSets, TLC

\* ---------------------------------------------------------------- bounds
\* longest decoded video track / external track, in samples
MaxVideoLen == 3
MaxWavLen == 3
\* samples per second (14700 at cut.py:30-31, scaled down)
sr == 2
\* length of the analysis window in seconds (60 at cut.py:34, scaled down)
WindowSeconds == 1
\* largest duration ffprobe reports, in seconds, and largest bit rate
MaxDuration == 2
MaxBitrate == 1

\* ------------------------------------------------------ program constants
\* cut.py:42
Threshold == 1000
\* cut.py:120  d=1
FadeLength == 1
\* cut.py:133
MinArgc == 4

\* Amplitudes of a decoded sample (librosa.load).  25 * 40 = Threshold.
Amp == {0, 25, 40}

Signals(n) == UNION {[1..k -> Amp] : k \in 1..n}

\* ------------------------------------------------------------ path model
Path(parent, name) == [parent |-> parent, name |-> name]

Dir == "media"
InMp4 == Path(Dir, "in.mp4")
ExtWav == Path(Dir, "ext.wav")
OutMp4 == Path(Dir, "out.mp4")
TempWav == Path(Dir, "temp_video_audio.wav")

Paths == {InMp4, ExtWav, OutMp4, TempWav}

\* The values each command-line argument is drawn from.
VideoArgs == {InMp4, TempWav}
AudioArgs == {ExtWav, TempWav}
OutputArgs == {OutMp4, TempWav, InMp4, ExtWav}

\* input_video.parent / "temp_video_audio.wav"
TempPathOf(video) == Path(video.parent, "temp_video_audio.wav")

\* ------------------------------------------------------- Python values
Unset == [type |-> "unset", num |-> 0, den |-> 1]
None == [type |-> "NoneType", num |-> 0, den |-> 1]
PyInt(n) == [type |-> "int", num |-> n, den |-> 1]
PyFloat(n, d) == [type |-> "float", num |-> n, den |-> d]

\* a > b for two numbers (denominators are positive)
Gt(a, b) == a.num * b.den > b.num * a.den

\* best_offset / sr : true division, kept as an exact fraction
TrueDiv(n, d) == PyFloat(n, d)

\* duration - 1
Minus(a, n) == [a EXCEPT !.num = a.num - n * a.den]

\* Python's max(a, b): b only when b > a, else a
py_max_first(a, b) == a

py_max(a, b) == IF Gt(b, a) THEN b ELSE a

\* str(x) as it appears in the argument list: the word None for None, the
\* decimal literal of the number otherwise (the int/float distinction is lost).
str(x) ==
    IF x.type = "NoneType"
    THEN [text |-> "None", num |-> 0, den |-> 1]
    ELSE [text |-> "number", num |-> x.num, den |-> x.den]

\* -------------------------------------------------------- signal algebra
Min(a, b) == IF a < b THEN a ELSE b

\* f[1] + ... + f[n]
RECURSIVE Sum(_, _)
Sum(f, n) == IF n = 0 THEN 0 ELSE f[n] + Sum(f, n - 1)

\* w[::-1]
Reverse(w) == [j \in 1..Len(w) |-> w[Len(w) + 1 - j]]

\* w[:n]
Prefix(w, n) == SubSeq(w, 1, Min(Len(w), n))

\* scipy.signal.fftconvolve(a, b, mode="full"): Len(a) + Len(b) - 1 points
fftconvolve(a, b) ==
    [n \in 1..(Len(a) + Len(b) - 1) |->
        Sum([i \in 1..Len(a) |->
                IF (n - i + 1) \in 1..Len(b) THEN a[i] * b[n - i + 1] ELSE 0],
            Len(a))]

np_max(c) == CHOOSE m \in {c[i] : i \in 1..Len(c)} : \A i \in 1..Len(c) : c[i] <= m

\* np.argmax: the 0-based index of the first maximum
np_argmax(c) ==
    LET m == np_max(c)
    IN (CHOOSE i \in 1..Len(c) : c[i] = m /\ \A j \in 1..(i - 1) : c[j] < m) - 1

\* cut.py:34  wav_y = wav_y[:sr*60]
truncate(w) == Prefix(w, sr * WindowSeconds)

\* cut.py:38
correlate(v, w) == fftconvolve(v, Reverse(w))

\* cut.py:42  the rejection test
correlation_too_low_100(m) == m < 100

correlation_too_low(m) == m < Threshold

\* cut.py:120  the fade filter's start time
fade_start_at_end(d) == d

fade_start(d) == Minus(d, 1)

\* ----------------------------------------------------------------- state
VARIABLES
    argc,             \* len(sys.argv)
    input_video, input_audio, output_video,
    ffmpeg_in_PATH,   \* shutil.which("ffmpeg") finds the tool
    fs,               \* the file system: path -> what the file holds
    fs0,              \* the file system when the run started
    pc,               \* the statement the run is at
    exit_code,        \* -1 while running
    error,            \* what ended the run early
    duration, extracted_audio, offset_seconds, bitrate, command,
    video_y, wav_y, best_offset, max_correlation,
    steps,            \* log: the pipeline steps begun, each with its outcome
    writes            \* log: every change the run made to the file system

vars == <<argc, input_video, input_audio, output_video, ffmpeg_in_PATH, fs, fs0,
          pc, exit_code, error, duration, extracted_audio, offset_seconds,
          bitrate, command, video_y, wav_y, best_offset, max_correlation,
          steps, writes>>

NoCommand ==
    [options |-> {}, ss |-> str(Unset), i_video |-> InMp4, i_audio |-> InMp4,
     b_v |-> str(Unset), t |-> str(Unset), fade_st |-> str(Unset), fade_d |-> 0,
     output |-> InMp4]

InitialFs(video, audio, missing) ==
    [p \in Paths |-> IF p \in ({video, audio} \ missing) THEN "original" ELSE "absent"]

Init ==
    /\ argc \in {MinArgc - 1, MinArgc}
    /\ input_video \in (IF argc < MinArgc THEN {InMp4} ELSE VideoArgs)
    /\ input_audio \in (IF argc < MinArgc THEN {ExtWav} ELSE AudioArgs)
    /\ output_video \in (IF argc < MinArgc THEN {OutMp4} ELSE OutputArgs)
    /\ ffmpeg_in_PATH \in BOOLEAN
    /\ fs \in {InitialFs(input_video, input_audio, m) :
                 m \in {{}, {input_video}, {input_audio}}}
    /\ fs0 = fs
    /\ pc = "main"
    /\ exit_code = -1
    /\ error = "none"
    /\ duration = Unset
    /\ extracted_audio = TempPathOf(input_video)
    /\ offset_seconds = Unset
    /\ bitrate = Unset
    /\ command = NoCommand
    /\ video_y = <<>>
    /\ wav_y = <<>>
    /\ best_offset = 0
    /\ max_correlation = 0
    /\ steps = <<>>
    /\ writes = <<>>

\* The run ends with a non-zero exit code: sys.exit(1), or an uncaught
\* exception (the interpreter prints the traceback and exits 1).
Die(why) ==
    /\ pc' = "exit"
    /\ exit_code' = 1
    /\ error' = why

Step(name, ok) == [name |-> name, ok |-> ok]

\* ------------------------------------------------- the external ffmpeg
\* What one "ffmpeg -y -i <inputs> ... <output>" run can do to the file
\* system f: it refuses an output that is one of its own inputs and writes
\* nothing; otherwise it succeeds and (over)writes the output, or fails,
\* leaving the output untouched or partly written.
ffmpeg(inputs, output, content, f) ==
    IF output \in inputs
    THEN {[returncode |-> 1, fs |-> f, wrote |-> FALSE]}
    ELSE {[returncode |-> 0, fs |-> [f EXCEPT ![output] = content], wrote |-> TRUE],
          [returncode |-> 1, fs |-> f, wrote |-> FALSE],
          [returncode |-> 1, fs |-> [f EXCEPT ![output] = "partial"], wrote |-> TRUE]}

Logged(step, path, r) ==
    IF r.wrote THEN Append(writes, [step |-> step, path |-> path, op |-> "write"])
    ELSE writes

\* ---------------------------------------------------------------- steps
\* cut.py:132-145  the __main__ block up to the call of process_video
main ==
    /\ pc = "main"
    /\ IF argc < MinArgc
       THEN Die("usage")
       ELSE IF fs[input_video] = "absent" \/ fs[input_audio] = "absent"
            THEN Die("input files do not exist")
            ELSE /\ pc' = "check_ffmpeg"
                 /\ UNCHANGED <<exit_code, error>>
    /\ UNCHANGED <<argc, input_video, input_audio, output_video, ffmpeg_in_PATH,
                   fs, fs0, duration, extracted_audio, offset_seconds, bitrate,
                   command, video_y, wav_y, best_offset, max_correlation,
                   steps, writes>>

\* cut.py:9-13, with the tool check replaced by a warning that falls through
check_ffmpeg_no_exit ==
    /\ pc = "check_ffmpeg"
    /\ pc' = "get_audio_duration"
    /\ UNCHANGED <<exit_code, error>>
    /\ UNCHANGED <<argc, input_video, input_audio, output_video, ffmpeg_in_PATH,
                   fs, fs0, duration, extracted_audio, offset_seconds, bitrate,
                   command, video_y, wav_y, best_offset, max_correlation,
                   steps, writes>>

\* cut.py:9-13
check_ffmpeg ==
    /\ pc = "check_ffmpeg"
    /\ IF ~ffmpeg_in_PATH
       THEN Die("ffmpeg not in PATH")
       ELSE /\ pc' = "get_audio_duration"
            /\ UNCHANGED <<exit_code, error>>
    /\ UNCHANGED <<argc, input_video, input_audio, output_video, ffmpeg_in_PATH,
                   fs, fs0, duration, extracted_audio, offset_seconds, bitrate,
                   command, video_y, wav_y, best_offset, max_correlation,
                   steps, writes>>

\* cut.py:53-64, called at cut.py:92.  ffprobe prints the duration, or fails
\* (CalledProcessError -> sys.exit(1)), or prints something float() rejects
\* (an uncaught ValueError).
get_audio_duration ==
    /\ pc = "get_audio_duration"
    /\ \/ \E d \in 1..MaxDuration :
            /\ duration' = PyFloat(d, 1)
            /\ steps' = Append(steps, Step("get_audio_duration", TRUE))
            /\ pc' = "extract_audio"
            /\ UNCHANGED <<exit_code, error>>
       \/ /\ Die("could not determine audio duration")
          /\ steps' = Append(steps, Step("get_audio_duration", FALSE))
          /\ UNCHANGED duration
       \/ /\ Die("ValueError")
          /\ steps' = Append(steps, Step("get_audio_duration", FALSE))
          /\ UNCHANGED duration
    /\ UNCHANGED <<argc, input_video, input_audio, output_video, ffmpeg_in_PATH,
                   fs, fs0, extracted_audio, offset_seconds, bitrate,
                   command, video_y, wav_y, best_offset, max_correlation, writes>>

\* cut.py:15-25 with check=True dropped: a failed extraction is not noticed
extract_audio_unchecked ==
    /\ pc = "extract_audio"
    /\ extracted_audio' = TempPathOf(input_video)
    /\ \E r \in ffmpeg({input_video}, extracted_audio', "extracted", fs) :
          /\ fs' = r.fs
          /\ writes' = Logged("extract_audio", extracted_audio', r)
          /\ steps' = Append(steps, Step("extract_audio", r.returncode = 0))
          /\ pc' = "find_audio_offset"
          /\ UNCHANGED <<exit_code, error>>
    /\ UNCHANGED <<argc, input_video, input_audio, output_video, ffmpeg_in_PATH,
                   fs0, duration, offset_seconds, bitrate, command, video_y,
                   wav_y, best_offset, max_correlation>>

\* cut.py:94-95 and 15-25: name the temporary WAV and extract into it
extract_audio ==
    /\ pc = "extract_audio"
    /\ extracted_audio' = TempPathOf(input_video)
    /\ \E r \in ffmpeg({input_video}, extracted_audio', "extracted", fs) :
          /\ fs' = r.fs
          /\ writes' = Logged("extract_audio", extracted_audio', r)
          /\ steps' = Append(steps, Step("extract_audio", r.returncode = 0))
          /\ IF r.returncode = 0
             THEN /\ pc' = "find_audio_offset"
                  /\ UNCHANGED <<exit_code, error>>
             ELSE Die("CalledProcessError")
    /\ UNCHANGED <<argc, input_video, input_audio, output_video, ffmpeg_in_PATH,
                   fs0, duration, offset_seconds, bitrate, command, video_y,
                   wav_y, best_offset, max_correlation>>

\* What librosa.load(external_audio) can return given what was decoded from
\* the temporary WAV: the same samples when both are the same file.
LoadedExternal(v) ==
    IF input_audio = extracted_audio THEN {v} ELSE Signals(MaxWavLen)

\* cut.py:27-51, called at cut.py:98
find_audio_offset ==
    /\ pc = "find_audio_offset"
    /\ \E v \in Signals(MaxVideoLen) : \E w \in LoadedExternal(v) :
          LET correlation == correlate(v, truncate(w))
          IN /\ video_y' = v
             /\ wav_y' = truncate(w)
             /\ best_offset' = np_argmax(correlation) - Len(truncate(w))
             /\ max_correlation' = np_max(correlation)
    /\ IF correlation_too_low(max_correlation')
       THEN /\ Die("no good alignment found")
            /\ steps' = Append(steps, Step("find_audio_offset", FALSE))
            /\ UNCHANGED offset_seconds
       ELSE /\ offset_seconds' = py_max(TrueDiv(best_offset', sr), PyInt(0))
            /\ steps' = Append(steps, Step("find_audio_offset", TRUE))
            /\ pc' = "get_video_bitrate"
            /\ UNCHANGED <<exit_code, error>>
    /\ UNCHANGED <<argc, input_video, input_audio, output_video, ffmpeg_in_PATH,
                   fs, fs0, duration, extracted_audio, bitrate, command, writes>>

\* cut.py:66-86, called at cut.py:102.  The sample arrays of
\* find_audio_offset are gone by now; the two scalars it printed stay recorded.
get_video_bitrate ==
    /\ pc = "get_video_bitrate"
    /\ \/ \E b \in 1..MaxBitrate : bitrate' = PyInt(b)
       \/ bitrate' = None
    /\ steps' = Append(steps, Step("get_video_bitrate", TRUE))
    /\ video_y' = <<>>
    /\ wav_y' = <<>>
    /\ pc' = "command"
    /\ UNCHANGED <<argc, input_video, input_audio, output_video, ffmpeg_in_PATH,
                   fs, fs0, exit_code, error, duration, extracted_audio,
                   offset_seconds, command, best_offset, max_correlation, writes>>

\* cut.py:108-122  the argument list of the final ffmpeg run
build_command ==
    /\ pc = "command"
    /\ command' =
         [options |-> {"-y", "-ss", "-i", "-map", "-c:v", "-c:a", "-b:v", "-b:a",
                       "-t", "-vf"},
          ss |-> str(offset_seconds),
          i_video |-> input_video,
          i_audio |-> input_audio,
          b_v |-> str(bitrate),
          t |-> str(duration),
          fade_st |-> str(fade_start(duration)),
          fade_d |-> FadeLength,
          output |-> output_video]
    /\ steps' = Append(steps, Step("command", TRUE))
    /\ pc' = "run"
    /\ UNCHANGED <<argc, input_video, input_audio, output_video, ffmpeg_in_PATH,
                   fs, fs0, exit_code, error, duration, extracted_audio,
                   offset_seconds, bitrate, video_y, wav_y, best_offset,
                   max_correlation, writes>>

\* cut.py:124-127  subprocess.run(command, check=True)
transcode ==
    /\ pc = "run"
    /\ \E r \in ffmpeg({command.i_video, command.i_audio}, command.output,
                       "transcoded", fs) :
          /\ fs' = r.fs
          /\ writes' = Logged("transcode", command.output, r)
          /\ steps' = Append(steps, Step("transcode", r.returncode = 0))
          /\ IF r.returncode = 0
             THEN /\ pc' = "unlink"
                  /\ UNCHANGED <<exit_code, error>>
             ELSE Die("CalledProcessError")
    /\ UNCHANGED <<argc, input_video, input_audio, output_video, ffmpeg_in_PATH,
                   fs0, duration, extracted_audio, offset_seconds, bitrate,
                   command, video_y, wav_y, best_offset, max_correlation>>

\* cut.py:129-130  extracted_audio.unlink(missing_ok=True), then the script ends
unlink ==
    /\ pc = "unlink"
    /\ fs' = [fs EXCEPT ![extracted_audio] = "absent"]
    /\ writes' = IF fs[extracted_audio] = "absent" THEN writes
                 ELSE Append(writes, [step |-> "unlink", path |-> extracted_audio,
                                      op |-> "unlink"])
    /\ steps' = Append(steps, Step("unlink", TRUE))
    /\ pc' = "done"
    /\ exit_code' = 0
    /\ UNCHANGED <<argc, input_video, input_audio, output_video, ffmpeg_in_PATH,
                   fs0, error, duration, extracted_audio, offset_seconds, bitrate,
                   command, video_y, wav_y, best_offset, max_correlation>>

\* cut.py:88-130
process_video ==
    \/ check_ffmpeg
    \/ get_audio_duration
    \/ extract_audio
    \/ find_audio_offset
    \/ get_video_bitrate
    \/ build_command
    \/ transcode
    \/ unlink

Next == main \/ process_video

Spec == Init /\ [][Next]_vars

\* ------------------------------------------------- vocabulary of the claims
Ended == pc \in {"done", "exit"}

Began(name) == \E i \in 1..Len(steps) : steps[i].name = name

Succeeded(name) == \E i \in 1..Len(steps) : steps[i] = Step(name, TRUE)

Failed(name) == \E i \in 1..Len(steps) : steps[i] = Step(name, FALSE)

Zeros(k) == [i \in 1..k |-> 0]

Window == sr * WindowSeconds

\* The steps in the order of the design's state machine; both metadata
\* probes belong to its ProbeMetadata stage.
DesignStage(name) ==
    CASE name = "extract_audio" -> 1
      [] name = "find_audio_offset" -> 2
      [] name = "get_audio_duration" -> 3
      [] name = "get_video_bitrate" -> 3
      [] name = "command" -> 4
      [] name = "transcode" -> 5
      [] name = "unlink" -> 6

\* The steps in the order process_video runs them.
CodeOrder ==
    <<"get_audio_duration", "extract_audio", "find_audio_offset",
      "get_video_bitrate", "command", "transcode", "unlink">>

\* --------------------------------------------------------------- claims

\* C1: once the extraction step has succeeded (the temporary WAV was
\* created), the temporary WAV no longer exists when the run has ended,
\* whether it ended in success or in a fatal failure.
C1_TempRemovedWhenRunEnds ==
    (Ended /\ Succeeded("extract_audio")) => fs[extracted_audio] = "absent"

\* C2 as stated: the transcode is only ever issued with a confidence strictly
\* above the threshold, and a run whose confidence does not exceed the
\* threshold ends with exit code 1 and without a transcode.
C2_TranscodeOnlyAboveThreshold ==
    /\ Began("transcode") => max_correlation > Threshold
    /\ (Ended /\ Began("find_audio_offset") /\ max_correlation <= Threshold)
          => (exit_code = 1 /\ ~Began("transcode"))

\* C2 amended: the transcode is only ever issued with a confidence of at
\* least the threshold, and a run whose confidence is below the threshold
\* fails in the estimation step, ends with exit code 1 and issues no
\* transcode (nor builds its request).
C2_TranscodeOnlyAtOrAboveThreshold ==
    /\ Began("transcode") => max_correlation >= Threshold
    /\ (Began("find_audio_offset") /\ max_correlation < Threshold)
          => /\ Failed("find_audio_offset")
             /\ pc = "exit"
             /\ exit_code = 1
             /\ error = "no good alignment found"
             /\ ~Began("command")
             /\ ~Began("transcode")

\* C2 witness: a transcode was issued with the confidence exactly at the threshold.
C2_Witness == Began("transcode") /\ max_correlation = Threshold

\* C3: when the reference (video_y) is the probe (wav_y, not silent) delayed
\* by k samples of zero padding, k from 0 to the analysis window, the lag
\* find_audio_offset computed from the argmax is k.
C3_LagOfDelayedCopyIsDelay ==
    (pc = "get_video_bitrate" /\ \E i \in 1..Len(wav_y) : wav_y[i] # 0)
       => \A k \in 0..Window : video_y = Zeros(k) \o wav_y => best_offset = k

\* C4: the offset find_audio_offset returns is max(lag / sr, 0): zero for a
\* negative lag, lag / sr otherwise, never negative; and the start-seek of
\* the transcode request is never negative.
C4_OffsetClamped ==
    /\ Succeeded("find_audio_offset") =>
          /\ offset_seconds.type \in {"int", "float"}
          /\ offset_seconds.den > 0
          /\ offset_seconds.num >= 0
          /\ best_offset < 0 => offset_seconds.num = 0
          /\ best_offset >= 0 => offset_seconds.num * sr = best_offset * offset_seconds.den
    /\ Began("command") => (command.ss.text = "number" /\ command.ss.den > 0
                             /\ command.ss.num >= 0)

\* C4 witness: a request was built from an estimate whose raw lag was negative.
C4_Witness == Began("command") /\ best_offset < 0 /\ command.ss.num = 0

\* C5: the output path is written at most once per run and only by the
\* transcode step; a run that failed before the transcode never wrote it.
C5_OutputWrittenOnlyByTranscode ==
    /\ \A i \in 1..Len(writes) :
          writes[i].path = output_video => writes[i].step = "transcode"
    /\ Cardinality({i \in 1..Len(writes) : writes[i].path = output_video}) <= 1
    /\ (pc = "exit" /\ ~Began("transcode")) => fs[output_video] = fs0[output_video]

\* C6: when get_video_bitrate returned None, the transcode request carries
\* no video bitrate: the option is absent from the argument list.
C6_NoBitrateMeansNoOption ==
    (Began("command") /\ bitrate = None) => "-b:v" \notin command.options

\* C7: the transcode request exists only after the duration lookup and the
\* offset estimation both succeeded, and it carries start-seek = the
\* estimated offset, trim = D, fade-out from D - 1 lasting 1 second.
C7_RequestParameters ==
    Began("command") =>
       /\ Succeeded("get_audio_duration")
       /\ Succeeded("find_audio_offset")
       /\ duration.type = "float" /\ duration.num >= 1
       /\ command.ss.text = "number"
       /\ command.ss.num * offset_seconds.den = offset_seconds.num * command.ss.den
       /\ command.t = [text |-> "number", num |-> duration.num, den |-> duration.den]
       /\ command.fade_st.text = "number"
       /\ command.fade_st.num = (duration.num - duration.den) * command.fade_st.den
       /\ command.fade_st.den = duration.den
       /\ command.fade_d = 1
       /\ command.i_video = input_video
       /\ command.i_audio = input_audio
       /\ command.output = output_video

\* C7 witness: a transcode was run with a request whose seek is positive.
C7_Witness == Began("transcode") /\ command.ss.num > 0 /\ command.t.num = MaxDuration

\* C8: when ffmpeg is not found or an input path does not exist, the run
\* never invokes an external process, never changes the file system, never
\* completes, and ends with exit code 1.
C8_NoWorkWithoutToolOrInputs ==
    (~ffmpeg_in_PATH \/ fs0[input_video] = "absent" \/ fs0[input_audio] = "absent")
       => /\ steps = <<>>
          /\ writes = <<>>
          /\ fs = fs0
          /\ pc # "done"
          /\ Ended => exit_code = 1

\* C8 witness: both inputs exist, ffmpeg is missing, and the run has ended.
C8_Witness ==
    /\ pc = "exit"
    /\ error = "ffmpeg not in PATH"
    /\ fs0[input_video] # "absent"
    /\ fs0[input_audio] # "absent"

C10_InputsUntouched ==
    /\ fs[input_video] = fs0[input_video]
    /\ fs[input_audio] = fs0[input_audio]
    /\ \A i \in 1..Len(writes) : writes[i].path \in {extracted_audio, output_video}

====
